---- MODULE Spec2Model ----
(***************************************************************************)
(* State-machine model of the PinkSync front end's translation session:    *)
(* the SignLanguageDemo component (src/components/sign-language-demo.tsx)  *)
(* running inside WebSocketProvider (src/contexts/websocket-context.tsx)   *)
(* and AuthProvider (the auth context merged into                          *)
(* src/browser-extension/background.js).                                   *)
(*                                                                         *)
(* Every handler of the source is one action.  The remote recognition      *)
(* service and the browser are the environment: the service answers each   *)
(* request it received with zero or more partial_translation messages and  *)
(* then one translation_result or one error message; an HTTP request       *)
(* resolves once, as success or as failure.                                *)
(*                                                                         *)
(* A session takes the lowest free slot of 1..MaxSessions when             *)
(* startRecording creates its MediaRecorder and gives the slot back when   *)
(* nothing of it can run any more.  The slots are bookkeeping of the model *)
(* only: the source carries no session identity anywhere.                  *)
(*                                                                         *)
(* Spec is the session model.  Three further specifications follow parts   *)
(* of the source that Spec takes in coarser steps, each over variables of  *)
(* its own, which the others leave at their initial values:                *)
(*   AuthSpec  AuthProvider handler by handler, with every response a step *)
(*             of its own, the sockets WebSocketProvider opens and closes, *)
(*             and the dashboard's redirect;                               *)
(*   WireSpec  sendMessage, onMessage, offMessage and the dispatch of      *)
(*             incoming messages as consumers of the context use them;     *)
(*   ExtSpec   the extension's popup (src/browser-extension/popup.js),     *)
(*             chrome.storage.sync and the content script (the             *)
(*             PinkSyncOverlay class merged into src/README.md).           *)
(***************************************************************************)
EXTENDS Integers, Sequences, FiniteSets, TLC

\* ------------------------------------------------------------------ bounds
\* Sessions that can be in progress at once, component instances that can
\* have closures alive at once, partial results shown per session.
MaxSessions == 2
MaxMounts == 2
MaxPartials == 2

Sessions == 1..MaxSessions
Instances == 1..MaxMounts

\* handleMessage closures of SignLanguageDemo that can be alive at once,
\* messages handed to sendMessage and messages delivered by the socket in a
\* run.
MaxHandlers == 2
MaxSends == 2
MaxMessages == 2

\* Callbacks given to onMessage: the closures of SignLanguageDemo's effect
\* runs, and the callback of another consumer of the context (Probe).
Handlers == 1..MaxHandlers
Probe == MaxHandlers + 1
Callbacks == Handlers \cup {Probe}

\* ------------------------------------------------------------------ values
\* TranslationResult (sign-language-demo.tsx:12-16); isNull marks the
\* useState(null) sentinel, which is distinct from a result with empty text.
Null == [isNull |-> TRUE, text |-> "", confidence |-> 0, features_detected |-> FALSE]
R1 == [isNull |-> FALSE, text |-> "hello", confidence |-> 40, features_detected |-> FALSE]
R2 == [isNull |-> FALSE, text |-> "hello world", confidence |-> 70, features_detected |-> FALSE]
R3 == [isNull |-> FALSE, text |-> "hello world", confidence |-> 95, features_detected |-> TRUE]
PartialData == {R1, R2}
FinalData == {R3}

NoError == "null"
ErrPermission == "Camera permission required for sign language recognition"
ErrService == "Translation service unavailable. Please try again."
ErrServer == "server error"

\* event.data.size of the blob a recorder delivers: empty or not.
ChunkSizes == {0, 1}

MessageTypes == {"translation_result", "partial_translation", "error"}

\* A session's position in the pipeline startRecording -> stop() ->
\* dataavailable, onstop -> FileReader.onloadend -> transport -> response.
\*   none      : unused slot
\*   capturing : MediaRecorder started, not stopped
\*   stopping  : stop() called, dataavailable and stop not yet fired
\*   reading   : onstop ran, FileReader.readAsDataURL of the payload in progress
\*   buffered  : emitted on a socket that is not connected (socket.io send buffer)
\*   ws        : request received by the service over the socket, answer owed
\*   http      : fetch in flight
\*   done      : final/error emitted by the service, or fetch settled
\*   lost      : request or answer dropped with its connection; no answer will come
\* transport is the channel the payload was handed to last, sent the number of
\* times it was handed to a channel.
NoSession == [phase |-> "none", inst |-> 0, connAtStart |-> FALSE,
              transport |-> "none", sent |-> 0, payload |-> <<>>]

\* What a first render captured: the provider's isConnected, and its socket
\* ("none" = null, "current" = the provider's socket, "closed" = a socket the
\* provider has closed since).
NoClosure == [isConnected |-> FALSE, socket |-> "none"]

VARIABLES
  \* AuthProvider
  user,               \* useState<User|null>: FALSE = null
  \* WebSocketProvider
  socket,             \* useState<Socket|null>: "none" = null, "current" = a socket
  isConnected,        \* useState(false)
  messageCallbacks,   \* useRef(new Set()): instances whose handleMessage is registered
  \* SignLanguageDemo, the rendered instance
  inst,               \* the rendered instance, 0 when the home page is not shown
  isRecording, isProcessing, translationResult, error, permissionGranted,
  stream,             \* webcamRef.current?.stream: "none", "live", or "ended"
                      \* (set, all its tracks ended)
  mediaRecorderRef,   \* session whose MediaRecorder the ref holds, 0 = null
  \* per instance, kept while one of its closures can still run
  recordedChunks,     \* recordedChunks.current: sessions that pushed a chunk
  closure,            \* isConnected and socket captured by the first render
  \* environment
  camera,             \* browser's camera permission: "prompt", "granted", "denied"
  permPending,        \* a getUserMedia promise of the rendered instance is unsettled
  sess,               \* per session: pipeline position and bookkeeping
  \* observation (history variable)
  shown,              \* values given to setTranslationResult since the last start
  \* AuthProvider and its consumers, in detail (AuthSpec)
  pinksync_token,     \* localStorage item: "none", "old" (stored before the page
                      \* was loaded) or "new" (stored since)
  isLoading,          \* useState(true)
  verify,             \* the mount effect and its verifyToken request: "idle" (effect
                      \* not run yet), "absent", "pending", "ok", "rejected", "failed"
  refresh,            \* a refreshToken request is in flight
  dashboard,          \* DashboardPage: "unmounted", "mounted", or "redirected"
                      \* (it has called router.push("/auth/login"))
  sockets,            \* connection state of every socket io() returned and
                      \* nobody closed, oldest first: "connecting" or "connected"
  \* WebSocketProvider's interface as its consumers use it (WireSpec)
  handler,            \* the handleMessage of SignLanguageDemo's latest effect run,
                      \* 0 when its effect is not active
  handed,             \* messages given to sendMessage, in order (history)
  sentOnSocket,       \* messages given to socket.emit, in order
  subscribed,         \* callbacks whose latest call was onMessage (history)
  received,           \* number of messages the socket delivered
  delivered,          \* per callback, how often it was called
  \* the browser extension: popup, chrome.storage.sync, content script (ExtSpec)
  popupSettings,      \* PinkSyncPopup.settings
  clicks,             \* popup actions so far
  setQueue,           \* values of chrome.storage.sync.set calls not yet settled,
                      \* in the order of the calls
  querying,           \* saveSettings calls waiting for chrome.tabs.query
  inbox,              \* APPLY_SETTINGS messages on their way to the tab
  pinkSyncSettings,   \* the value stored in chrome.storage.sync
  overlayPhase,       \* PinkSyncOverlay.init: "loading", "loaded", "listening"
  overlaySettings,    \* PinkSyncOverlay.settings
  root,               \* what applySettings last put on document.documentElement
  signLanguageWidget, \* PinkSyncOverlay.signLanguageWidget is not null
  widgets             \* number of #pinksync-sign-widget elements in the page

provVars == <<user, socket, isConnected, messageCallbacks>>
flagVars == <<isRecording, isProcessing, translationResult, error>>
demoVars == <<inst, permissionGranted, stream, mediaRecorderRef>>
instVars == <<recordedChunks, closure>>
envVars == <<camera, permPending>>
authVars == <<pinksync_token, isLoading, verify, refresh, dashboard, sockets>>
wireVars == <<handler, handed, sentOnSocket, subscribed, received, delivered>>
popupVars == <<popupSettings, clicks, setQueue, querying, inbox, pinkSyncSettings>>
overlayVars == <<overlayPhase, overlaySettings, root, signLanguageWidget, widgets>>
extVars == <<popupVars, overlayVars>>
auxVars == <<authVars, wireVars, extVars>>
vars == <<provVars, flagVars, demoVars, instVars, envVars, sess, shown, auxVars>>

mounted == inst # 0

\* SignLanguageDemo is not rendered, nobody is logged in, no socket.
SessionInit ==
  /\ user = FALSE
  /\ socket = "none"
  /\ isConnected = FALSE
  /\ messageCallbacks = {}
  /\ inst = 0
  /\ isRecording = FALSE
  /\ isProcessing = FALSE
  /\ translationResult = Null
  /\ error = NoError
  /\ permissionGranted = FALSE
  /\ stream = "none"
  /\ mediaRecorderRef = 0
  /\ recordedChunks = [i \in Instances |-> <<>>]
  /\ closure = [i \in Instances |-> NoClosure]
  /\ camera = "prompt"
  /\ permPending = FALSE
  /\ sess = [s \in Sessions |-> NoSession]
  /\ shown = <<>>

\* AuthProvider as constructed, nothing stored, no page of its consumers
\* rendered.
AuthAtRest ==
  /\ pinksync_token = "none"
  /\ isLoading = TRUE
  /\ verify = "idle"
  /\ refresh = FALSE
  /\ dashboard = "unmounted"
  /\ sockets = <<>>

\* No consumer has used the provider's interface.
WireAtRest ==
  /\ handler = 0
  /\ handed = <<>>
  /\ sentOnSocket = <<>>
  /\ subscribed = {}
  /\ received = 0
  /\ delivered = [cb \in Callbacks |-> 0]

\* The settings both classes of the extension start from, and the install
\* listener stores.
DefaultSettings ==
  [highContrast |-> FALSE, fontSize |-> 16, reducedMotion |-> FALSE,
   focusIndicators |-> TRUE, signLanguageOverlay |-> FALSE]

\* document.documentElement before any applySettings: none of the classes, no
\* --pinksync-font-size (0).
BareRoot ==
  [highContrast |-> FALSE, fontSize |-> 0, reducedMotion |-> FALSE,
   focusIndicators |-> FALSE]

\* The extension installed, the popup not used, the content script of the
\* active tab constructed.
ExtAtRest ==
  /\ popupSettings = DefaultSettings
  /\ clicks = 0
  /\ setQueue = <<>>
  /\ querying = 0
  /\ inbox = <<>>
  /\ pinkSyncSettings = DefaultSettings
  /\ overlayPhase = "loading"
  /\ overlaySettings = DefaultSettings
  /\ root = BareRoot
  /\ signLanguageWidget = FALSE
  /\ widgets = 0

Init == SessionInit /\ AuthAtRest /\ WireAtRest /\ ExtAtRest

\* The instance that started session s is the one on screen: only then do the
\* state setters of its closures have any effect.
Live(s) == mounted /\ sess[s].inst = inst

\* ------------------------------------------------------------- bookkeeping
\* What can no longer be read is forgotten, and slots are reused.  A finished
\* session is forgotten unless it is the one the rendered instance's
\* mediaRecorderRef holds (cur); an instance is forgotten once it is not
\* rendered (ci) and none of its sessions is left; the chunks of an instance are
\* forgotten once none of its recorders is left to fire (only onstop reads
\* them, and startRecording empties them).
Release(ss, cur) ==
  [s \in Sessions |->
     IF ss[s].phase \in {"done", "lost"} /\ s # cur THEN NoSession ELSE ss[s]]

Used(i, ss, ci) == i = ci \/ \E s \in Sessions : ss[s].inst = i

Recorders(i, ss) ==
  \E s \in Sessions : ss[s].inst = i /\ ss[s].phase \in {"capturing", "stopping"}

\* The next state's sess, closure and recordedChunks from their new values.
Tidy(ss, cl, rc, cur, ci) ==
  LET kept == Release(ss, cur)
  IN /\ sess' = kept
     /\ closure' = [i \in Instances |-> IF Used(i, kept, ci) THEN cl[i] ELSE NoClosure]
     /\ recordedChunks' = [i \in Instances |-> IF Recorders(i, kept) THEN rc[i] ELSE <<>>]

\* Only sess changes, and the rendered instance and its ref stay.
TidySess(ss) == Tidy(ss, closure, recordedChunks, mediaRecorderRef, inst)

FreeSessions == {s \in Sessions : sess[s].phase = "none"}
FreeInstances == {i \in Instances : ~Used(i, sess, inst)}
Lowest(S) == CHOOSE x \in S : \A y \in S : x <= y

SetPhase(s, p) == [sess EXCEPT ![s].phase = p]

\* Session s was started by an instance whose closures hold the provider's
\* current socket.
OnSocket(s) == sess[s].inst # 0 /\ closure[sess[s].inst].socket = "current"

\* ------------------------------------------------------------ AuthProvider
\* login(), success path: the token is stored, setUser(data.user) and
\* router.push("/dashboard").  The login form is on its own page, so the home
\* page is not rendered.  WebSocketProvider's effect then runs with
\* isAuthenticated && user and creates the socket (io(...), setSocket).
Login ==
  /\ ~user
  /\ ~mounted
  /\ user' = TRUE
  /\ socket' = "current"
  /\ UNCHANGED <<isConnected, messageCallbacks, flagVars, demoVars, instVars,
                 envVars, sess, shown>>
  /\ UNCHANGED auxVars

\* First render of SignLanguageDemo as instance i: useState initial values;
\* the closures of startRecording (useCallback with []), processVideo and
\* sendMessage capture the provider's isConnected and socket of this render;
\* the mount effect calls getUserMedia and onMessage(handleMessage).
MountDemo(i) ==
  /\ inst' = i
  /\ isRecording' = FALSE
  /\ isProcessing' = FALSE
  /\ translationResult' = Null
  /\ error' = NoError
  /\ permissionGranted' = FALSE
  /\ stream' = "none"
  /\ mediaRecorderRef' = 0
  /\ permPending' = TRUE
  /\ messageCallbacks' = {i}
  /\ shown' = <<>>
  /\ UNCHANGED camera

\* The closures of the instances that hold the provider's socket, after the
\* provider closed it.
SocketClosed(cl) ==
  [i \in Instances |->
     IF cl[i].socket = "current" THEN [cl[i] EXCEPT !.socket = "closed"] ELSE cl[i]]

\* logout(): the token is removed, setUser(null), router.push("/") renders the
\* home page.  The socket effect's cleanup closes the socket and clears socket
\* and isConnected; what was buffered on it or owed to it is dropped.
Logout ==
  /\ user
  /\ mounted \/ FreeInstances # {}
  /\ user' = FALSE
  /\ socket' = "none"
  /\ isConnected' = FALSE
  /\ LET dropped == [s \in Sessions |->
                       IF sess[s].phase \in {"ws", "buffered"} /\ OnSocket(s)
                       THEN [sess[s] EXCEPT !.phase = "lost"] ELSE sess[s]]
     IN IF mounted
        THEN /\ Tidy(dropped, SocketClosed(closure), recordedChunks, mediaRecorderRef, inst)
             /\ UNCHANGED <<messageCallbacks, flagVars, demoVars, envVars, shown>>
        ELSE LET i == Lowest(FreeInstances)
             IN /\ MountDemo(i)
                /\ Tidy(dropped, [SocketClosed(closure) EXCEPT ![i] = NoClosure],
                        recordedChunks, 0, i)
  /\ UNCHANGED auxVars

\* ------------------------------------------------------- WebSocketProvider
\* newSocket.on("connect"): setIsConnected(true).  socket.io flushes the send
\* buffer of the socket on (re)connection.
SocketConnect ==
  /\ socket # "none"
  /\ ~isConnected
  /\ isConnected' = TRUE
  /\ sess' = [s \in Sessions |->
                IF sess[s].phase = "buffered" /\ OnSocket(s)
                THEN [sess[s] EXCEPT !.phase = "ws"] ELSE sess[s]]
  /\ UNCHANGED <<user, socket, messageCallbacks, flagVars, demoVars, instVars,
                 envVars, shown>>
  /\ UNCHANGED auxVars

\* newSocket.on("disconnect"): setIsConnected(false), nothing else.  The
\* service's answers to requests received on the dropped connection are gone.
SocketDisconnect ==
  /\ socket # "none"
  /\ isConnected
  /\ isConnected' = FALSE
  /\ TidySess([s \in Sessions |->
                 IF sess[s].phase = "ws" /\ OnSocket(s)
                 THEN [sess[s] EXCEPT !.phase = "lost"] ELSE sess[s]])
  /\ UNCHANGED <<user, socket, messageCallbacks, flagVars, demoVars, envVars, shown>>
  /\ UNCHANGED auxVars

\* handleMessage with a final result applied only when nothing is displayed
\* yet: a partial already on screen is kept.
HandleMessageKeepsPartial(message) ==
  IF message.type = "translation_result"
  THEN /\ translationResult' = IF translationResult.isNull THEN message.data
                                ELSE translationResult
       /\ isProcessing' = FALSE
       /\ UNCHANGED <<isRecording, error>>
  ELSE IF message.type = "partial_translation"
  THEN /\ translationResult' = message.data
       /\ UNCHANGED <<isRecording, isProcessing, error>>
  ELSE IF message.type = "error"
  THEN /\ error' = message.message
       /\ isProcessing' = FALSE
       /\ UNCHANGED <<isRecording, translationResult>>
  ELSE UNCHANGED flagVars

\* handleMessage with partial results treated like final ones: the first
\* partial already clears the processing flag.
HandleMessagePartialEnds(message) ==
  IF message.type \in {"translation_result", "partial_translation"}
  THEN /\ translationResult' = message.data
       /\ isProcessing' = FALSE
       /\ UNCHANGED <<isRecording, error>>
  ELSE IF message.type = "error"
  THEN /\ error' = message.message
       /\ isProcessing' = FALSE
       /\ UNCHANGED <<isRecording, translationResult>>
  ELSE UNCHANGED flagVars

\* handleMessage with a partial result treated as a fresh start of the
\* display: it also clears the error.
HandleMessagePartialClearsError(message) ==
  IF message.type = "translation_result"
  THEN /\ translationResult' = message.data
       /\ isProcessing' = FALSE
       /\ UNCHANGED <<isRecording, error>>
  ELSE IF message.type = "partial_translation"
  THEN /\ translationResult' = message.data
       /\ error' = NoError
       /\ UNCHANGED <<isRecording, isProcessing>>
  ELSE IF message.type = "error"
  THEN /\ error' = message.message
       /\ isProcessing' = FALSE
       /\ UNCHANGED <<isRecording, translationResult>>
  ELSE UNCHANGED flagVars

\* handleMessage of SignLanguageDemo's effect.
HandleMessage(message) ==
  IF message.type = "translation_result"
  THEN /\ translationResult' = message.data
       /\ isProcessing' = FALSE
       /\ UNCHANGED <<isRecording, error>>
  ELSE IF message.type = "partial_translation"
  THEN /\ translationResult' = message.data
       /\ UNCHANGED <<isRecording, isProcessing, error>>
  ELSE IF message.type = "error"
  THEN /\ error' = message.message
       /\ isProcessing' = FALSE
       /\ UNCHANGED <<isRecording, translationResult>>
  ELSE UNCHANGED flagVars

\* Number of results of the given sources shown since the last start.
Shown(srcs) == Cardinality({i \in 1..Len(shown) : shown[i].src \in srcs})

\* newSocket.on("message"): every registered callback is called with the
\* message.  The service sends it in answer to session s's request.
SocketMessage(s, type, data) ==
  /\ socket # "none"
  /\ isConnected
  /\ sess[s].phase = "ws"
  /\ OnSocket(s)
  /\ type = "partial_translation" =>
       Shown({"partial_translation"}) < MaxPartials /\ data \in PartialData
  /\ type = "translation_result" => data \in FinalData
  /\ type = "error" => data = Null
  /\ LET message == [type |-> type, data |-> data, message |-> ErrServer]
     IN /\ TidySess(IF type = "partial_translation" THEN sess ELSE SetPhase(s, "done"))
        /\ IF messageCallbacks # {}
           THEN /\ HandleMessage(message)
                /\ shown' = IF type = "error" THEN shown
                            ELSE Append(shown, [val |-> translationResult', src |-> type,
                                                data |-> data, own |-> (s = mediaRecorderRef)])
           ELSE UNCHANGED <<flagVars, shown>>
  /\ UNCHANGED <<provVars, demoVars, envVars>>
  /\ UNCHANGED auxVars

\* ------------------------------------------------------- SignLanguageDemo
\* The user opens the home page: <SignLanguageDemo /> is rendered.
NavigateHome ==
  /\ ~mounted
  /\ FreeInstances # {}
  /\ LET i == Lowest(FreeInstances)
     IN /\ MountDemo(i)
        /\ closure' = [closure EXCEPT ![i] =
                         [isConnected |-> isConnected, socket |-> socket]]
  /\ UNCHANGED <<user, socket, isConnected, recordedChunks, sess>>
  /\ UNCHANGED auxVars

\* A recorder whose stream's tracks have all ended stops by itself: it goes
\* inactive and fires dataavailable and stop like a recorder that stop() was
\* called on.  No handler of the component learns of it.
TracksEnded(i) ==
  [s \in Sessions |->
     IF sess[s].inst = i /\ sess[s].phase = "capturing"
     THEN [sess[s] EXCEPT !.phase = "stopping"] ELSE sess[s]]

\* The user leaves the home page: the effect's cleanup calls
\* offMessage(handleMessage); the instance's state is discarded and the
\* unmounting <Webcam> stops its stream's tracks.  Nothing cancels what the
\* instance's closures have under way: its recorder still fires its events, a
\* FileReader still loads, a fetch still settles, the service still answers.
NavigateAway ==
  /\ mounted
  /\ inst' = 0
  /\ messageCallbacks' = {}
  /\ isRecording' = FALSE
  /\ isProcessing' = FALSE
  /\ translationResult' = Null
  /\ error' = NoError
  /\ permissionGranted' = FALSE
  /\ stream' = "none"
  /\ mediaRecorderRef' = 0
  /\ permPending' = FALSE
  /\ shown' = <<>>
  /\ Tidy(TracksEnded(inst), closure, recordedChunks, 0, 0)
  /\ UNCHANGED <<user, socket, isConnected, camera>>
  /\ UNCHANGED auxVars

\* getUserMedia(...).then(() => setPermissionGranted(true)).  The browser
\* keeps the user's answer for the page.
GetUserMediaResolved ==
  /\ mounted
  /\ permPending
  /\ camera \in {"prompt", "granted"}
  /\ camera' = "granted"
  /\ permPending' = FALSE
  /\ permissionGranted' = TRUE
  /\ UNCHANGED <<provVars, flagVars, inst, stream, mediaRecorderRef, instVars,
                 sess, shown>>
  /\ UNCHANGED auxVars

\* The rejection handler letting the component proceed as if the camera had
\* been granted (the setter placed in a finally instead of the then).
GetUserMediaRejectedProceeds ==
  /\ mounted
  /\ permPending
  /\ camera \in {"prompt", "denied"}
  /\ camera' = "denied"
  /\ permPending' = FALSE
  /\ error' = ErrPermission
  /\ permissionGranted' = TRUE
  /\ UNCHANGED <<provVars, isRecording, isProcessing, translationResult, inst,
                 stream, mediaRecorderRef, instVars, sess, shown>>
  /\ UNCHANGED auxVars

\* getUserMedia(...).catch(() => setError("Camera permission required ..."))
GetUserMediaRejected ==
  /\ mounted
  /\ permPending
  /\ camera \in {"prompt", "denied"}
  /\ camera' = "denied"
  /\ permPending' = FALSE
  /\ error' = ErrPermission
  /\ UNCHANGED <<provVars, isRecording, isProcessing, translationResult, demoVars,
                 instVars, sess, shown>>
  /\ UNCHANGED auxVars

\* <Webcam ref={webcamRef}> is rendered once permissionGranted is true and
\* obtains the camera stream.
WebcamStream ==
  /\ mounted
  /\ permissionGranted
  /\ stream = "none"
  /\ stream' = "live"
  /\ UNCHANGED <<provVars, flagVars, inst, permissionGranted, mediaRecorderRef,
                 instVars, envVars, sess, shown>>
  /\ UNCHANGED auxVars

\* The camera is unplugged or taken away: the tracks of the stream end.  The
\* component registers no handler for it (no onended, no recorder onerror).
DeviceLost ==
  /\ mounted
  /\ stream = "live"
  /\ stream' = "ended"
  /\ sess' = TracksEnded(inst)
  /\ UNCHANGED <<provVars, flagVars, inst, permissionGranted, mediaRecorderRef,
                 instVars, envVars, shown>>
  /\ UNCHANGED auxVars

\* The Start button without its disabled attribute: it can be pressed while
\* a request is being processed.
StartEnabledWhileProcessing == mounted /\ permissionGranted /\ ~isRecording

\* The Start button is rendered when permissionGranted and !isRecording, and
\* is disabled while isProcessing.
StartEnabled == mounted /\ permissionGranted /\ ~isRecording /\ ~isProcessing

\* startRecording without setTranslationResult(null): the previous session's
\* result stays on screen during the new capture.
StartRecordingKeepsResult ==
  /\ StartEnabled
  /\ FreeSessions # {}
  /\ IF stream = "none"
     THEN UNCHANGED vars
     ELSE /\ error' = NoError
          /\ UNCHANGED translationResult
          /\ shown' = <<>>
          /\ \/ LET s == Lowest(FreeSessions)
                IN /\ mediaRecorderRef' = s
                   /\ Tidy([sess EXCEPT ![s] =
                              [phase |-> IF stream = "live" THEN "capturing"
                                         ELSE "stopping",
                               inst |-> inst,
                               connAtStart |-> isConnected, transport |-> "none",
                               sent |-> 0, payload |-> <<>>]],
                           closure, [recordedChunks EXCEPT ![inst] = <<>>], s, inst)
                   /\ isRecording' = TRUE
             \/ /\ stream = "ended"
                /\ mediaRecorderRef' = 0
                /\ Tidy(sess, closure, [recordedChunks EXCEPT ![inst] = <<>>], 0, inst)
                /\ UNCHANGED isRecording
          /\ UNCHANGED <<provVars, isProcessing, inst, permissionGranted,
                         stream, envVars>>
  /\ UNCHANGED auxVars

\* startRecording.  On a stream whose tracks have ended the browser either
\* refuses mediaRecorder.start() with an exception, after the handler has
\* already cleared error, result and chunks and replaced the ref (by a
\* recorder that never runs: the ref is read only while isRecording, so it is
\* kept as 0), or starts the recorder, which then stops by itself at once.
StartRecording ==
  /\ StartEnabled
  /\ FreeSessions # {}
  /\ IF stream = "none"
     THEN UNCHANGED vars
     ELSE /\ error' = NoError
          /\ translationResult' = Null
          /\ shown' = <<>>
          /\ \/ LET s == Lowest(FreeSessions)
                IN /\ mediaRecorderRef' = s
                   /\ Tidy([sess EXCEPT ![s] =
                              [phase |-> IF stream = "live" THEN "capturing"
                                         ELSE "stopping",
                               inst |-> inst,
                               connAtStart |-> isConnected, transport |-> "none",
                               sent |-> 0, payload |-> <<>>]],
                           closure, [recordedChunks EXCEPT ![inst] = <<>>], s, inst)
                   /\ isRecording' = TRUE
             \/ /\ stream = "ended"
                /\ mediaRecorderRef' = 0
                /\ Tidy(sess, closure, [recordedChunks EXCEPT ![inst] = <<>>], 0, inst)
                /\ UNCHANGED isRecording
          /\ UNCHANGED <<provVars, isProcessing, inst, permissionGranted,
                         stream, envVars>>
  /\ UNCHANGED auxVars

\* The Stop button is rendered in place of Start while isRecording.
StopEnabled == mounted /\ permissionGranted /\ isRecording

\* stopRecording.  stop() on a recorder that is already inactive (its tracks
\* ended) either throws InvalidStateError, which ends the handler before its
\* setters, or returns without effect, depending on the browser.
StopRecording ==
  /\ StopEnabled
  /\ IF mediaRecorderRef # 0 /\ isRecording
     THEN IF sess[mediaRecorderRef].phase = "capturing"
          THEN /\ sess' = SetPhase(mediaRecorderRef, "stopping")
               /\ isRecording' = FALSE
               /\ isProcessing' = TRUE
               /\ UNCHANGED <<provVars, translationResult, error, demoVars,
                              instVars, envVars, shown>>
          ELSE \/ UNCHANGED vars
               \/ /\ isRecording' = FALSE
                  /\ isProcessing' = TRUE
                  /\ UNCHANGED <<provVars, translationResult, error, demoVars,
                                 instVars, envVars, sess, shown>>
     ELSE UNCHANGED vars
  /\ UNCHANGED auxVars

\* stop() makes the recorder fire dataavailable and then stop from one task:
\* ondataavailable pushes the recorded blob unless it is empty, and onstop
\* builds new Blob(recordedChunks.current) and calls processVideo(blob), which
\* runs up to reader.readAsDataURL(videoBlob).
RecorderOnStop(s, size) ==
  /\ sess[s].phase = "stopping"
  /\ LET chunks == IF size > 0 THEN Append(recordedChunks[sess[s].inst], s)
                   ELSE recordedChunks[sess[s].inst]
     IN Tidy([sess EXCEPT ![s].phase = "reading", ![s].payload = chunks],
             closure, [recordedChunks EXCEPT ![sess[s].inst] = chunks],
             mediaRecorderRef, inst)
  /\ UNCHANGED <<provVars, flagVars, demoVars, envVars, shown>>
  /\ UNCHANGED auxVars

\* sendMessage as captured by the instance's first render: its socket and
\* isConnected are those of c.  socket.emit on the provider's socket reaches
\* the service if it is connected and is buffered if not; on a closed socket
\* nothing is ever sent.  The payload has left the component.
SendMessage(c, s) ==
  IF c.socket # "none" /\ c.isConnected
  THEN [sess EXCEPT ![s].transport = "ws",
                    ![s].sent = @ + 1,
                    ![s].payload = <<>>,
                    ![s].phase = IF c.socket = "closed" THEN "lost"
                                 ELSE IF isConnected THEN "ws"
                                 ELSE "buffered"]
  ELSE [sess EXCEPT ![s].phase = "lost", ![s].payload = <<>>]

\* processVideo that, having emitted on a socket that is not connected at
\* the moment, sends the payload over HTTP as well.
ProcessVideoAlsoHTTP(s) ==
  /\ sess[s].phase = "reading"
  /\ LET c == closure[sess[s].inst]
         emitted == SendMessage(c, s)
     IN TidySess(IF c.isConnected /\ isConnected
                 THEN emitted
                 ELSE [(IF c.isConnected THEN emitted ELSE sess)
                         EXCEPT ![s].transport = "http", ![s].phase = "http",
                                ![s].sent = @ + 1, ![s].payload = <<>>])
  /\ UNCHANGED <<provVars, flagVars, demoVars, envVars, shown>>
  /\ UNCHANGED auxVars

\* processVideo, reader.onloadend: the transport is chosen by the isConnected
\* of the closure that startRecording captured.
ProcessVideo(s) ==
  /\ sess[s].phase = "reading"
  /\ LET c == closure[sess[s].inst]
     IN TidySess(IF c.isConnected
                 THEN SendMessage(c, s)
                 ELSE [sess EXCEPT ![s].transport = "http", ![s].phase = "http",
                                   ![s].sent = @ + 1, ![s].payload = <<>>])
  /\ UNCHANGED <<provVars, flagVars, demoVars, envVars, shown>>
  /\ UNCHANGED auxVars

\* processVideoHTTP with setIsProcessing(false) at the end of the try block
\* instead of in a finally: a failed request leaves the flag set.
ProcessVideoHTTPNoFinally(s, ok, data) ==
  /\ sess[s].phase = "http"
  /\ TidySess(SetPhase(s, "done"))
  /\ IF Live(s)
     THEN /\ isProcessing' = (isProcessing /\ ~ok)
          /\ IF ok
             THEN /\ translationResult' = data
                  /\ shown' = Append(shown, [val |-> translationResult', src |-> "http",
                                             data |-> data, own |-> (s = mediaRecorderRef)])
                  /\ UNCHANGED error
             ELSE /\ error' = ErrService
                  /\ UNCHANGED <<translationResult, shown>>
          /\ UNCHANGED isRecording
     ELSE UNCHANGED <<flagVars, shown>>
  /\ UNCHANGED <<provVars, demoVars, envVars>>
  /\ UNCHANGED auxVars

\* processVideoHTTP after the fetch settles: response.ok with a body, or a
\* non-success status or network failure; finally setIsProcessing(false).
\* The setters of an instance that is no longer rendered have no effect.
ProcessVideoHTTP(s, ok, data) ==
  /\ sess[s].phase = "http"
  /\ TidySess(SetPhase(s, "done"))
  /\ IF Live(s)
     THEN /\ isProcessing' = FALSE
          /\ IF ok
             THEN /\ translationResult' = data
                  /\ shown' = Append(shown, [val |-> translationResult', src |-> "http",
                                             data |-> data, own |-> (s = mediaRecorderRef)])
                  /\ UNCHANGED error
             ELSE /\ error' = ErrService
                  /\ UNCHANGED <<translationResult, shown>>
          /\ UNCHANGED isRecording
     ELSE UNCHANGED <<flagVars, shown>>
  /\ UNCHANGED <<provVars, demoVars, envVars>>
  /\ UNCHANGED auxVars

Next ==
  \/ Login
  \/ Logout
  \/ SocketConnect
  \/ SocketDisconnect
  \/ \E s \in Sessions, type \in MessageTypes, data \in PartialData \cup FinalData \cup {Null} :
       SocketMessage(s, type, data)
  \/ NavigateHome
  \/ NavigateAway
  \/ GetUserMediaResolved
  \/ GetUserMediaRejected
  \/ WebcamStream
  \/ DeviceLost
  \/ StartRecording
  \/ StopRecording
  \/ \E s \in Sessions, size \in ChunkSizes : RecorderOnStop(s, size)
  \/ \E s \in Sessions : ProcessVideo(s)
  \/ \E s \in Sessions, ok \in BOOLEAN, data \in FinalData : ProcessVideoHTTP(s, ok, data)

Spec == Init /\ [][Next]_vars

TypeOK ==
  /\ user \in BOOLEAN
  /\ socket \in {"none", "current"}
  /\ isConnected \in BOOLEAN
  /\ isRecording \in BOOLEAN /\ isProcessing \in BOOLEAN
  /\ translationResult \in {Null} \cup PartialData \cup FinalData
  /\ mediaRecorderRef \in 0..MaxSessions
  /\ inst \in 0..MaxMounts
  /\ stream \in {"none", "live", "ended"}
  /\ isConnected => socket # "none"
  /\ user <=> socket # "none"

\* The event loop runs every pending callback, a fetch settles, and the
\* service ends every answer it owes with a final result or an error.  The
\* user and the network's connectivity are under no obligation.
ServiceEnds(s) ==
  \/ \E data \in FinalData : SocketMessage(s, "translation_result", data)
  \/ SocketMessage(s, "error", Null)

FairSpec ==
  /\ Spec
  /\ \A s \in Sessions :
       /\ WF_vars(\E size \in ChunkSizes : RecorderOnStop(s, size))
       /\ WF_vars(ProcessVideo(s))
       /\ WF_vars(\E ok \in BOOLEAN, data \in FinalData : ProcessVideoHTTP(s, ok, data))
       /\ WF_vars(ServiceEnds(s))

\* ------------------------------------------------------- session lifecycle
\* The session the rendered instance is working on, 0 if none.
Current == IF mounted THEN mediaRecorderRef ELSE 0

AwaitingPhases == {"buffered", "ws", "http", "lost"}

\* Awaiting Result: the payload left the component and the processing flag
\* is still set.
AwaitingResult ==
  /\ Current # 0
  /\ isProcessing
  /\ sess[Current].phase \in AwaitingPhases

\* Session s has work in progress: its recorder runs under the rendered
\* instance, or it was stopped and its payload or its answer is outstanding.
\* A session whose answer was dropped is not counted.
Outstanding(s) ==
  \/ sess[s].phase \in {"stopping", "reading", "buffered", "ws", "http"}
  \/ sess[s].phase = "capturing" /\ Live(s)

ResultSrc == {"translation_result", "http"}

\* This step handed a message of one of the given types to handleMessage (or,
\* for "http", applied a fetch's body): one more entry in shown.
Received(types) ==
  /\ Len(shown') = Len(shown) + 1
  /\ shown'[Len(shown')].src \in types

\* ------------------------------------------------------------------ claims

\* C1: at most one translation session is active at any time; startRecording
\* never begins a capture while an earlier session is still capturing, being
\* encoded, or waiting for its answer.
C1_SingleSession == Cardinality({s \in Sessions : Outstanding(s)}) <= 1

\* C2: a result of a session other than the active one (or one that arrives
\* while no session awaits a result) never changes the displayed result: the
\* displayed result changes to a result only by a result of the current
\* session, whose request is outstanding.
C2_ForeignInvisible ==
  [][(translationResult' # translationResult /\ ~translationResult'.isNull)
       => /\ Current # 0
          /\ sess[Current].phase \in AwaitingPhases
          /\ Len(shown') > 0
          /\ shown'[Len(shown')].own]_vars

\* C3: when a translation_result message is handled, the displayed result is
\* that message's data, whatever partial results were shown before it.
C3_FinalExact ==
  [][Received({"translation_result"})
       => translationResult' = shown'[Len(shown')].data]_vars

C3_Witness ==
  /\ Len(shown) >= 3
  /\ shown[Len(shown)].src = "translation_result"
  /\ shown[Len(shown) - 1].src = "partial_translation"
  /\ shown[Len(shown) - 2].src = "partial_translation"
  /\ shown[Len(shown) - 1].data # shown[Len(shown)].data
  /\ shown[Len(shown) - 2].data # shown[Len(shown) - 1].data
  /\ shown[Len(shown)].own /\ shown[Len(shown) - 1].own /\ shown[Len(shown) - 2].own
  /\ translationResult = shown[Len(shown)].data

\* The commands the component offers: its two button handlers.
UserCommand == StartRecording \/ StopRecording

\* C4: in every non-idle state (capturing, encoding, awaiting a result) a
\* cancel command is accepted and takes the session manager to idle in one
\* step without producing a result.
C4_CancelAccepted ==
  (mounted /\ (isRecording \/ isProcessing))
    => ENABLED (UserCommand /\ ~isRecording' /\ ~isProcessing'
                  /\ translationResult' = translationResult)

\* C5: a session awaiting its result does not wait forever: the processing
\* flag is eventually cleared (by a result, an error or a timeout).
C5_Timeout == AwaitingResult ~> ~isProcessing

\* C6: a session started while the socket is not connected sends its payload
\* over HTTP, and while it is the current session no partial result is shown
\* and, once it succeeded, exactly one final result was shown.
C6_FallbackOneFinal ==
  \A s \in Sessions :
    (sess[s].phase \in AwaitingPhases \cup {"done"} /\ ~sess[s].connAtStart)
      => /\ sess[s].transport = "http"
         /\ (Current = s) =>
              /\ Shown({"partial_translation"}) = 0
              /\ (sess[s].phase = "done" /\ error = NoError) => Shown(ResultSrc) = 1

\* C7: the payload goes over the WebSocket if and only if the socket was
\* connected when the session started.
C7_TransportAtStart ==
  \A s \in Sessions :
    sess[s].transport # "none" => (sess[s].transport = "ws" <=> sess[s].connAtStart)

\* C8: every result message is applied when it is received, in the order
\* received: the i-th value displayed since the start is the data of the i-th
\* result received; and the message that delivers a final result clears the
\* processing flag and sets no error.
C8_Order ==
  /\ [](\A i \in 1..Len(shown) : shown[i].val = shown[i].data)
  /\ [][Received({"translation_result", "partial_translation"})
          => /\ translationResult' = shown'[Len(shown')].data
             /\ error' = error
             /\ isProcessing' =
                  (isProcessing /\ shown'[Len(shown')].src = "partial_translation")]_vars

C8_Witness ==
  /\ Current # 0
  /\ sess[Current].phase = "done"
  /\ [i \in 1..Len(shown) |-> shown[i].val] = <<R1, R2, R3>>
  /\ \A i \in 1..Len(shown) : shown[i].own
  /\ translationResult = R3
  /\ ~isProcessing
  /\ ~isRecording
  /\ error = NoError

\* C9: once a final result is displayed, the displayed result changes only
\* when the next session is started (by startRecording, which clears it).
C9_FinalImmutable ==
  [][(mounted /\ mounted'
        /\ (\E i \in 1..Len(shown) : shown[i].src \in ResultSrc /\ shown[i].own)
        /\ translationResult' # translationResult)
       => (StartRecording /\ translationResult'.isNull)]_vars

\* C10: when the socket's connection drops (the disconnect event) while the
\* current session, sent over the socket, awaits its result, the session
\* fails: an error is set and the processing flag is cleared.
C10_ConnectionLoss ==
  [][(AwaitingResult /\ sess[Current].transport = "ws" /\ sess[Current].phase = "ws"
        /\ isConnected /\ ~isConnected' /\ socket' = socket)
       => (error' # NoError /\ ~isProcessing')]_vars

\* ---------------------------------------------------------- lifecycle view
\* The lifecycle state the rendered component is in, read off its flags: the
\* component keeps no state variable of its own for it.  Encoding and Awaiting
\* Result both have isProcessing set and differ in whether processVideo has
\* handed the payload to a transport yet.
Stage ==
  IF ~mounted THEN "Idle"
  ELSE IF isRecording THEN "Capturing"
  ELSE IF isProcessing
       THEN IF Current # 0 /\ sess[Current].phase \in {"stopping", "reading"}
            THEN "Encoding" ELSE "AwaitingResult"
  ELSE IF error # NoError THEN "Failed"
  ELSE IF ~translationResult.isNull THEN "ResultAvailable"
  ELSE "Idle"

\* The edges of the lifecycle: the chain of the happy path, the failures the
\* states' descriptions name, and a start from a terminal state (the reset to
\* Idle is implicit in the flags being clear).
LifecycleEdges ==
  { <<"Idle", "Capturing">>, <<"Capturing", "Encoding">>,
    <<"Encoding", "AwaitingResult">>, <<"AwaitingResult", "ResultAvailable">>,
    <<"AwaitingResult", "Failed">>, <<"Capturing", "Failed">>,
    <<"Encoding", "Failed">>, <<"ResultAvailable", "Idle">>, <<"Failed", "Idle">>,
    <<"ResultAvailable", "Capturing">>, <<"Failed", "Capturing">> }

\* A step of the rendered instance, its camera working, other than its
\* mounting, its unmounting and the settling of its camera permission request.
SessionStep ==
  mounted /\ inst' = inst /\ permPending' = permPending /\ stream' # "ended"

\* C11: the lifecycle state of the component changes only along the edges
\* Idle -> Capturing -> Encoding -> Awaiting Result -> (Result Available |
\* Failed) -> Idle; no start, stop, message or HTTP response moves it along
\* any other edge.
C11_Lifecycle ==
  [][(SessionStep /\ Stage' # Stage) => <<Stage, Stage'>> \in LifecycleEdges]_vars

\* C12: every session hands its payload to exactly one transport, exactly
\* once: a session that has left the Encoding step has handed it over once,
\* to the WebSocket or to HTTP, and that choice never changes and is never
\* repeated afterwards, whatever happens to the connection.
C12_OneTransportOnce ==
  /\ [](\A s \in Sessions :
         /\ sess[s].sent <= 1
         /\ sess[s].sent = 1 <=> sess[s].transport \in {"ws", "http"}
         /\ sess[s].phase \in AwaitingPhases \cup {"done"} => sess[s].sent = 1
         /\ sess[s].phase \in {"none", "capturing", "stopping", "reading"}
              => sess[s].sent = 0)
  /\ [][\A s \in Sessions :
          sess[s].sent = 1
            => \/ sess'[s] = NoSession
               \/ sess'[s].sent = 1 /\ sess'[s].transport = sess[s].transport]_vars

\* The current session was sent over the socket, the connection dropped and
\* came back: nothing was sent again.
C12_Witness ==
  /\ Current # 0
  /\ OnSocket(Current)
  /\ sess[Current].phase = "lost"
  /\ sess[Current].transport = "ws"
  /\ sess[Current].sent = 1
  /\ isConnected
  /\ isProcessing

\* A result of the current session has been displayed since its start.
OwnResultShown ==
  \E i \in 1..Len(shown) : shown[i].src \in ResultSrc /\ shown[i].own

\* The current session has failed: its request or its answer was dropped with
\* the connection, or its request ended (error message, HTTP failure) without
\* a result of its own.
SessionFailed ==
  /\ Current # 0
  /\ \/ sess[Current].phase = "lost"
     \/ sess[Current].phase = "done" /\ ~OwnResultShown

\* C13: every failure of a session is reported: the step in which the current
\* session fails records an error and ends the processing indication.
C13_FailuresFail ==
  [][(mounted /\ inst' = inst /\ ~SessionFailed /\ SessionFailed')
       => (error' # NoError /\ ~isProcessing')]_vars

\* The chunks of session s in a sequence of chunks.
OwnChunks(s, chunks) == SelectSeq(chunks, LAMBDA c : c = s)

\* C14: a session whose recorder delivered no non-empty chunk is not handed
\* to a transport: the step that ends its Encoding (the FileReader's
\* onloadend) sends nothing and does not make it await a result.
C14_EmptyCapture ==
  [][\A s \in Sessions :
       (sess[s].phase = "reading" /\ OwnChunks(s, sess[s].payload) = <<>>
          /\ sess'[s] # sess[s])
         => (sess'[s].sent = 0 /\ sess'[s].phase \notin AwaitingPhases)]_vars

\* C15: when the camera is lost while the component is Capturing, the session
\* fails: the recording flag is cleared and an error is recorded, so that the
\* component does not stay in Capturing.
C15_DeviceLost ==
  [][(mounted /\ mounted' /\ isRecording /\ stream = "live" /\ stream' = "ended")
       => (~isRecording' /\ error' # NoError)]_vars

CurrentEnds ==
  /\ mounted /\ mounted'
  /\ Current # 0
  /\ Current' = Current
  /\ sess[Current].phase \in {"ws", "http"}
  /\ sess'[Current].phase = "done"

\* C17: whenever the current session reaches Result Available or Failed, the
\* component accepts a new start: the recording flag and the processing flag
\* are both false and the Start button is enabled.
C17_TerminalReady ==
  [][CurrentEnds => (~isRecording' /\ ~isProcessing' /\ StartEnabled')]_vars

\* C18: a start discards the previous session's output: right after a
\* successful startRecording the displayed result is the null sentinel, the
\* error is cleared and the chunk buffer is empty; and a displayed result
\* becomes null again only by startRecording.
C18_StartDiscards ==
  /\ [][(mounted /\ inst' = inst /\ ~isRecording /\ isRecording')
          => /\ translationResult' = Null
             /\ error' = NoError
             /\ recordedChunks'[inst] = <<>>
             /\ shown' = <<>>]_vars
  /\ [][(mounted /\ inst' = inst /\ ~translationResult.isNull
            /\ translationResult'.isNull)
          => StartRecording]_vars

\* A capture has just started: nothing of an earlier session is displayed.
C18_Witness ==
  /\ Current # 0
  /\ sess[Current].phase = "capturing"
  /\ isRecording
  /\ translationResult = Null
  /\ translationResult # [Null EXCEPT !.isNull = FALSE]
  /\ error = NoError
  /\ recordedChunks[inst] = <<>>
  /\ shown = <<>>

\* C19: when the HTTP request of a session of the rendered instance settles,
\* exactly one outcome is recorded: either the response body becomes the
\* displayed result and the error is left as it was, or the service error is
\* set and the displayed result is left as it was; in both cases the
\* processing flag is false afterwards.
C19_HTTPOutcome ==
  [][\A s \in Sessions :
       (Live(s) /\ inst' = inst /\ sess[s].phase = "http" /\ sess'[s].phase # "http")
         => /\ ~isProcessing'
            /\ \/ /\ Received({"http"})
                  /\ translationResult' = shown'[Len(shown')].data
                  /\ ~translationResult'.isNull
                  /\ error' = error
               \/ /\ shown' = shown
                  /\ error' = ErrService
                  /\ translationResult' = translationResult]_vars

\* The current session went over HTTP and its request failed.
C19_Witness ==
  /\ Current # 0
  /\ sess[Current].transport = "http"
  /\ sess[Current].phase = "done"
  /\ error = ErrService
  /\ translationResult = Null
  /\ shown = <<>>
  /\ ~isProcessing
  /\ ~isRecording

\* C20: the payload assembled for a session consists of exactly the chunks
\* that session's recorder produced: no chunk of another session is in it.
C20_OwnChunksOnly ==
  \A s \in Sessions : sess[s].payload = OwnChunks(s, sess[s].payload)

\* C21: a partial_translation message handled while the current session
\* awaits its result changes only the displayed result: the processing flag
\* stays true, the recording flag, the error and everything else the
\* component holds are unchanged, and the session still awaits its result.
C21_PartialFrame ==
  [][(AwaitingResult /\ Received({"partial_translation"}))
       => /\ translationResult' = shown'[Len(shown')].data
          /\ isProcessing'
          /\ isRecording' = isRecording
          /\ error' = error
          /\ UNCHANGED <<demoVars, instVars, provVars>>
          /\ sess'[Current] = sess[Current]
          /\ AwaitingResult']_vars

\* The current session awaits its result with an error of an earlier message
\* still set, and a partial result of its own has just been displayed.
C21_Witness ==
  /\ AwaitingResult
  /\ sess[Current].phase = "ws"
  /\ error = ErrServer
  /\ Len(shown) > 0
  /\ shown[Len(shown)].src = "partial_translation"
  /\ shown[Len(shown)].own
  /\ translationResult = shown[Len(shown)].data

\* The phases of a session whose recorder has fired its stop event: onstop
\* has called processVideo for it.
ProcessedPhases == {"reading", "buffered", "ws", "http", "done", "lost"}

\* C22: stopRecording has an effect only while a recording is in progress:
\* a call that changes anything finds the recorder of the current session
\* capturing, stops it, clears the recording flag and sets the processing
\* flag, changing nothing else; and onstop calls processVideo for a session
\* once only.
C22_StopOnlyCapturing ==
  /\ [][StopRecording
          => /\ isRecording
             /\ Current # 0
             /\ sess[Current].phase = "capturing"
             /\ sess' = SetPhase(Current, "stopping")
             /\ ~isRecording'
             /\ isProcessing'
             /\ UNCHANGED <<provVars, translationResult, error, demoVars,
                            instVars, envVars, shown>>]_vars
  /\ [][\A s \in Sessions :
          sess[s].phase \in ProcessedPhases
            => sess'[s].phase \in ProcessedPhases \cup {"none"}]_vars

\* C23: the recording flag and the processing flag are never both set.
C23_FlagsExclusive == ~(isRecording /\ isProcessing)

\* A request is being processed on a working camera with a free recorder
\* slot, and the only thing that keeps a new capture from starting is the
\* disabled Start button.
C23_Witness ==
  /\ mounted
  /\ permissionGranted
  /\ stream = "live"
  /\ FreeSessions # {}
  /\ isProcessing
  /\ ~isRecording
  /\ ~ENABLED StartRecording

\* ---------------------------------------------------- AuthProvider in detail
\* AuthSpec follows AuthProvider, WebSocketProvider's connection effect and
\* DashboardPage's redirect effect with every response a step of its own.
\* Its handlers carry the source's names; Login and Logout above are the
\* coarser steps Spec takes.  The pages' other content is not followed here.

VerifyOutcomes == {"ok", "rejected", "failed"}

\* The page is loaded with or without a token stored by an earlier visit, on
\* the dashboard or on another page.
AuthInit ==
  /\ SessionInit
  /\ pinksync_token \in {"none", "old"}
  /\ isLoading = TRUE
  /\ verify = "idle"
  /\ refresh = FALSE
  /\ dashboard \in {"unmounted", "mounted"}
  /\ sockets = <<>>
  /\ WireAtRest
  /\ ExtAtRest

\* The cleanup of the connection effect without newSocket.close(): the
\* replaced socket stays open.
CloseSocketLeavesOpen(ss) == ss

\* newSocket.close() in the cleanup of WebSocketProvider's effect: the socket
\* the effect created, the newest, is closed and emits nothing any more.
CloseSocket(ss) == IF ss = <<>> THEN ss ELSE SubSeq(ss, 1, Len(ss) - 1)

\* setUser(u) and the re-run of WebSocketProvider's effect ([isAuthenticated,
\* user]) it causes: the cleanup of a run that created a socket closes it and
\* clears socket and isConnected; the body creates a socket for a user.  A user
\* object is a new one on every call; setUser(null) on null changes nothing.
SetUser(u) ==
  /\ user' = u
  /\ LET open == IF user THEN CloseSocket(sockets) ELSE sockets
     IN sockets' = IF u THEN Append(open, "connecting") ELSE open
  /\ socket' = IF u THEN "current" ELSE IF user THEN "none" ELSE socket
  /\ isConnected' = IF user THEN FALSE ELSE isConnected

\* DashboardPage's effect ([isAuthenticated, isLoading, router]), run after
\* the commit that mounts the page or changes either value.
DashboardEffect(d, loading, authenticated) ==
  IF d = "mounted" /\ ~loading /\ ~authenticated THEN "redirected" ELSE d

\* AuthProvider's mount effect: verifyToken(token) is called for a stored
\* token, else setIsLoading(false).
AuthMount ==
  /\ verify = "idle"
  /\ IF pinksync_token # "none"
     THEN /\ verify' = "pending"
          /\ UNCHANGED <<isLoading, dashboard>>
     ELSE /\ verify' = "absent"
          /\ isLoading' = FALSE
          /\ dashboard' = DashboardEffect(dashboard, FALSE, user)
  /\ UNCHANGED <<provVars, flagVars, demoVars, instVars, envVars, sess, shown,
                 pinksync_token, refresh, sockets>>
  /\ UNCHANGED <<wireVars, extVars>>

\* verifyToken with setIsLoading(false) on the success path only.
verifyTokenNoFinally(outcome) ==
  /\ verify = "pending"
  /\ verify' = outcome
  /\ IF outcome = "ok"
     THEN /\ SetUser(TRUE)
          /\ isLoading' = FALSE
          /\ UNCHANGED pinksync_token
     ELSE /\ pinksync_token' = "none"
          /\ UNCHANGED <<user, socket, isConnected, sockets, isLoading>>
  /\ dashboard' = DashboardEffect(dashboard, isLoading', user')
  /\ UNCHANGED <<messageCallbacks, flagVars, demoVars, instVars, envVars, sess,
                 shown, refresh>>
  /\ UNCHANGED <<wireVars, extVars>>

\* verifyToken after its fetch settles: response.ok, a non-success status, or
\* a network failure; finally setIsLoading(false).
verifyToken(outcome) ==
  /\ verify = "pending"
  /\ verify' = outcome
  /\ IF outcome = "ok"
     THEN /\ SetUser(TRUE)
          /\ UNCHANGED pinksync_token
     ELSE /\ pinksync_token' = "none"
          /\ UNCHANGED <<user, socket, isConnected, sockets>>
  /\ isLoading' = FALSE
  /\ dashboard' = DashboardEffect(dashboard, FALSE, user')
  /\ UNCHANGED <<messageCallbacks, flagVars, demoVars, instVars, envVars, sess,
                 shown, refresh>>
  /\ UNCHANGED <<wireVars, extVars>>

\* login (and loginBiometric, which differs in the request only) after a
\* successful response: the token is stored, setUser(data.user),
\* router.push("/dashboard").  A refused login throws and changes nothing.
login ==
  /\ verify # "idle"
  /\ dashboard # "mounted"
  /\ pinksync_token' = "new"
  /\ SetUser(TRUE)
  /\ dashboard' = DashboardEffect("mounted", isLoading, TRUE)
  /\ UNCHANGED <<messageCallbacks, flagVars, demoVars, instVars, envVars, sess,
                 shown, isLoading, verify, refresh>>
  /\ UNCHANGED <<wireVars, extVars>>

\* The body of logout: the token is removed, setUser(null), router.push("/").
LogoutBody ==
  /\ pinksync_token' = "none"
  /\ SetUser(FALSE)
  /\ dashboard' = "unmounted"

\* logout, offered to an authenticated user.
logout ==
  /\ verify # "idle"
  /\ user
  /\ LogoutBody
  /\ UNCHANGED <<messageCallbacks, flagVars, demoVars, instVars, envVars, sess,
                 shown, isLoading, verify, refresh>>
  /\ UNCHANGED <<wireVars, extVars>>

\* refreshToken up to its fetch: nothing is requested without a stored token.
refreshToken ==
  /\ verify # "idle"
  /\ ~refresh
  /\ pinksync_token # "none"
  /\ refresh' = TRUE
  /\ UNCHANGED <<provVars, flagVars, demoVars, instVars, envVars, sess, shown,
                 pinksync_token, isLoading, verify, dashboard, sockets>>
  /\ UNCHANGED <<wireVars, extVars>>

\* refreshToken after its fetch settles: response.ok stores the new token, a
\* non-success status changes nothing, a network failure calls logout().
RefreshResponse(outcome) ==
  /\ refresh
  /\ refresh' = FALSE
  /\ IF outcome = "ok"
     THEN /\ pinksync_token' = "new"
          /\ UNCHANGED <<user, socket, isConnected, sockets, dashboard>>
     ELSE IF outcome = "rejected"
     THEN UNCHANGED <<pinksync_token, user, socket, isConnected, sockets, dashboard>>
     ELSE LogoutBody
  /\ UNCHANGED <<messageCallbacks, flagVars, demoVars, instVars, envVars, sess,
                 shown, isLoading, verify>>
  /\ UNCHANGED <<wireVars, extVars>>

\* The user opens /dashboard: DashboardPage mounts and its effect runs.
OpenDashboard ==
  /\ verify # "idle"
  /\ dashboard # "mounted"
  /\ dashboard' = DashboardEffect("mounted", isLoading, user)
  /\ UNCHANGED <<provVars, flagVars, demoVars, instVars, envVars, sess, shown,
                 pinksync_token, isLoading, verify, refresh, sockets>>
  /\ UNCHANGED <<wireVars, extVars>>

\* The user goes to another page.
LeaveDashboard ==
  /\ verify # "idle"
  /\ dashboard # "unmounted"
  /\ dashboard' = "unmounted"
  /\ UNCHANGED <<provVars, flagVars, demoVars, instVars, envVars, sess, shown,
                 pinksync_token, isLoading, verify, refresh, sockets>>
  /\ UNCHANGED <<wireVars, extVars>>

\* The connect event of the k-th open socket: its handler calls
\* setIsConnected(true).
SocketOnConnect(k) ==
  /\ k \in DOMAIN sockets
  /\ sockets[k] = "connecting"
  /\ sockets' = [sockets EXCEPT ![k] = "connected"]
  /\ isConnected' = TRUE
  /\ UNCHANGED <<user, socket, messageCallbacks, flagVars, demoVars, instVars,
                 envVars, sess, shown, pinksync_token, isLoading, verify, refresh,
                 dashboard>>
  /\ UNCHANGED <<wireVars, extVars>>

\* The disconnect event of the k-th open socket (socket.io then reconnects):
\* its handler calls setIsConnected(false).
SocketOnDisconnect(k) ==
  /\ k \in DOMAIN sockets
  /\ sockets[k] = "connected"
  /\ sockets' = [sockets EXCEPT ![k] = "connecting"]
  /\ isConnected' = FALSE
  /\ UNCHANGED <<user, socket, messageCallbacks, flagVars, demoVars, instVars,
                 envVars, sess, shown, pinksync_token, isLoading, verify, refresh,
                 dashboard>>
  /\ UNCHANGED <<wireVars, extVars>>

\* Sockets that can be open at once (one, unless a cleanup leaves one open).
MaxSockets == 2

AuthNext ==
  \/ AuthMount
  \/ \E outcome \in VerifyOutcomes : verifyToken(outcome)
  \/ login
  \/ logout
  \/ refreshToken
  \/ \E outcome \in VerifyOutcomes : RefreshResponse(outcome)
  \/ OpenDashboard
  \/ LeaveDashboard
  \/ \E k \in 1..MaxSockets : SocketOnConnect(k)
  \/ \E k \in 1..MaxSockets : SocketOnDisconnect(k)

AuthSpec == AuthInit /\ [][AuthNext]_vars

\* Effects run and a fetch settles; the user is under no obligation.
AuthFairSpec ==
  /\ AuthSpec
  /\ WF_vars(AuthMount)
  /\ WF_vars(\E outcome \in VerifyOutcomes : verifyToken(outcome))

\* C24: whenever a user is set a token is stored.
C24_UserHasToken == user => pinksync_token # "none"

\* C25: isConnected is true exactly when the most recently created socket is
\* connected, and then the provider holds a socket; a socket replaced by a
\* logout or a change of user is closed, so that no open socket is left
\* beside the newest and none without a user.
C25_ConnectedIsNewest ==
  /\ isConnected <=> (sockets # <<>> /\ sockets[Len(sockets)] = "connected")
  /\ isConnected => socket = "current"
  /\ Len(sockets) <= 1
  /\ sockets # <<>> <=> user
  /\ socket = "current" <=> user

\* The user was set twice (by login and by the verify response), so the first
\* socket was replaced; the second one is connected.
C25_Witness ==
  /\ user
  /\ verify = "ok"
  /\ pinksync_token = "new"
  /\ sockets = <<"connected">>
  /\ socket = "current"
  /\ isConnected

\* C28: token verification at mount ends the loading phase whatever its
\* outcome: isLoading becomes false and stays false; a rejected or failed
\* verification leaves no token stored; DashboardPage redirects to the login
\* page only when isLoading is false and no user is set, and is never left
\* mounted in such a state.
C28_LoadingEnds ==
  /\ <>[](~isLoading)
  /\ [][(verify = "pending" /\ verify' \in {"rejected", "failed"})
          => pinksync_token' = "none"]_vars
  /\ [][(dashboard # "redirected" /\ dashboard' = "redirected")
          => (~isLoading' /\ ~user')]_vars
  /\ [](dashboard = "mounted" => (isLoading \/ user))

\* The page was loaded on the dashboard with a stored token, the verify
\* request failed: loading has ended, the token is gone and the dashboard has
\* redirected.
C28_Witness ==
  /\ verify = "failed"
  /\ ~isLoading
  /\ pinksync_token = "none"
  /\ ~user
  /\ dashboard = "redirected"

\* ------------------------------------- WebSocketProvider's interface in use
\* WireSpec follows the three functions the provider hands to its consumers
\* (sendMessage, onMessage, offMessage) and the dispatch of incoming messages,
\* in every connection state of the provider.

SendTypes == {"translation_request", "other"}

\* The provider as mounted, nobody logged in; Login, SocketConnect and
\* SocketDisconnect take it through its connection states.
WireInit ==
  /\ SessionInit
  /\ AuthAtRest
  /\ WireAtRest
  /\ ExtAtRest

\* sendMessage guarded by the socket alone.
sendMessageAnySocket(type) ==
  /\ Len(handed) < MaxSends
  /\ handed' = Append(handed, type)
  /\ sentOnSocket' = IF socket # "none" THEN Append(sentOnSocket, type)
                     ELSE sentOnSocket
  /\ UNCHANGED <<provVars, flagVars, demoVars, instVars, envVars, sess, shown,
                 authVars, handler, subscribed, received, delivered>>
  /\ UNCHANGED extVars

\* sendMessage(type, data), as handed out by the provider's current render:
\* socket.emit("message", {type, data}) if (socket && isConnected), else
\* nothing.  It returns nothing and sets no state.
sendMessage(type) ==
  /\ Len(handed) < MaxSends
  /\ handed' = Append(handed, type)
  /\ sentOnSocket' = IF socket # "none" /\ isConnected
                     THEN Append(sentOnSocket, type)
                     ELSE sentOnSocket
  /\ UNCHANGED <<provVars, flagVars, demoVars, instVars, envVars, sess, shown,
                 authVars, handler, subscribed, received, delivered>>
  /\ UNCHANGED extVars

\* messageCallbacks.current.add(callback)
onMessage(callbacks, cb) == callbacks \cup {cb}

\* offMessage that removes nothing.
offMessageKeeps(callbacks, cb) == callbacks

\* messageCallbacks.current.delete(callback)
offMessage(callbacks, cb) == callbacks \ {cb}

\* SignLanguageDemo's effect ([onMessage, offMessage]) runs: on mount, and
\* again after every render of the provider, whose functions are new ones
\* each time.  The cleanup of the previous run calls offMessage with that
\* run's handleMessage; the body defines a new handleMessage h and calls
\* onMessage(h).
DemoEffect(h) ==
  /\ h \in Handlers \ {handler}
  /\ handler' = h
  /\ messageCallbacks' =
       onMessage(IF handler = 0 THEN messageCallbacks
                 ELSE offMessage(messageCallbacks, handler), h)
  /\ subscribed' = (IF handler = 0 THEN subscribed ELSE subscribed \ {handler}) \cup {h}
  /\ UNCHANGED <<user, socket, isConnected, flagVars, demoVars, instVars, envVars,
                 sess, shown, authVars, handed, sentOnSocket, received, delivered>>
  /\ UNCHANGED extVars

\* SignLanguageDemo unmounts: the cleanup of its last effect run.
DemoCleanup ==
  /\ handler # 0
  /\ handler' = 0
  /\ messageCallbacks' = offMessage(messageCallbacks, handler)
  /\ subscribed' = subscribed \ {handler}
  /\ UNCHANGED <<user, socket, isConnected, flagVars, demoVars, instVars, envVars,
                 sess, shown, authVars, handed, sentOnSocket, received, delivered>>
  /\ UNCHANGED extVars

\* Another consumer registers its callback, whether or not it is registered
\* already.
ProbeOn ==
  /\ messageCallbacks' = onMessage(messageCallbacks, Probe)
  /\ subscribed' = subscribed \cup {Probe}
  /\ UNCHANGED <<user, socket, isConnected, flagVars, demoVars, instVars, envVars,
                 sess, shown, authVars, handler, handed, sentOnSocket, received, delivered>>
  /\ UNCHANGED extVars

\* The other consumer removes its callback, whether or not it is registered.
ProbeOff ==
  /\ messageCallbacks' = offMessage(messageCallbacks, Probe)
  /\ subscribed' = subscribed \ {Probe}
  /\ UNCHANGED <<user, socket, isConnected, flagVars, demoVars, instVars, envVars,
                 sess, shown, authVars, handler, handed, sentOnSocket, received, delivered>>
  /\ UNCHANGED extVars

\* newSocket.on("message"): messageCallbacks.current.forEach(cb => cb(message)).
Dispatch ==
  /\ socket # "none"
  /\ isConnected
  /\ received < MaxMessages
  /\ received' = received + 1
  /\ delivered' = [cb \in Callbacks |->
                     delivered[cb] + Cardinality({c \in messageCallbacks : c = cb})]
  /\ UNCHANGED <<provVars, flagVars, demoVars, instVars, envVars, sess, shown,
                 authVars, handler, handed, sentOnSocket, subscribed>>
  /\ UNCHANGED extVars

WireNext ==
  \/ Login
  \/ SocketConnect
  \/ SocketDisconnect
  \/ \E type \in SendTypes : sendMessage(type)
  \/ \E h \in Handlers : DemoEffect(h)
  \/ DemoCleanup
  \/ ProbeOn
  \/ ProbeOff
  \/ Dispatch

WireSpec == WireInit /\ [][WireNext]_vars

C27_Delivery ==
  /\ [][received' # received =>
          \A cb \in Callbacks :
            delivered'[cb] = delivered[cb] + (IF cb \in subscribed THEN 1 ELSE 0)]_vars
  /\ [][delivered' # delivered => received' = received + 1]_vars
  /\ [](Cardinality(messageCallbacks \cap Handlers) <= 1)
  /\ [](messageCallbacks \cap Handlers = IF handler = 0 THEN {} ELSE {handler})

\* Two messages arrived: the first called the handleMessage of the first
\* effect run, the second the handleMessage of a later run and the other
\* consumer's callback, and not the replaced one; the component has unmounted
\* since and none of its closures is registered.
C27_Witness ==
  /\ received = 2
  /\ delivered = [cb \in Callbacks |-> 1]
  /\ handler = 0
  /\ messageCallbacks = {Probe}

\* ------------------------------------------------- the browser extension
\* ExtSpec follows the popup (PinkSyncPopup), chrome.storage.sync and the
\* content script of the active tab (PinkSyncOverlay).  saveSettings is
\* asynchronous: a later popup action can start a second call while the
\* first waits for the storage or for the tab query.

MaxClicks == 3

Switches == {"highContrast", "reducedMotion", "focusIndicators", "signLanguageOverlay"}

\* Positions of the font-size slider.
FontSizes == {16, 20}

ExtInit ==
  /\ SessionInit
  /\ AuthAtRest
  /\ WireAtRest
  /\ ExtAtRest

\* saveSettings up to its first await: chrome.storage.sync.set is called
\* with the settings as they are now.
saveSettings(settings) == setQueue' = Append(setQueue, settings)

\* A click on one of the four switches.
ToggleClick(switchId) ==
  /\ clicks < MaxClicks
  /\ clicks' = clicks + 1
  /\ popupSettings' = [popupSettings EXCEPT ![switchId] = ~popupSettings[switchId]]
  /\ saveSettings(popupSettings')
  /\ UNCHANGED <<provVars, flagVars, demoVars, instVars, envVars, sess, shown,
                 authVars, wireVars, overlayVars, querying, inbox, pinkSyncSettings>>

\* An input event of the font-size slider.
FontSizeInput(value) ==
  /\ clicks < MaxClicks
  /\ value # popupSettings.fontSize
  /\ clicks' = clicks + 1
  /\ popupSettings' = [popupSettings EXCEPT !.fontSize = value]
  /\ saveSettings(popupSettings')
  /\ UNCHANGED <<provVars, flagVars, demoVars, instVars, envVars, sess, shown,
                 authVars, wireVars, overlayVars, querying, inbox, pinkSyncSettings>>

\* A click on the reset button.
resetSettings ==
  /\ clicks < MaxClicks
  /\ clicks' = clicks + 1
  /\ popupSettings' = DefaultSettings
  /\ saveSettings(popupSettings')
  /\ UNCHANGED <<provVars, flagVars, demoVars, instVars, envVars, sess, shown,
                 authVars, wireVars, overlayVars, querying, inbox, pinkSyncSettings>>

\* The oldest chrome.storage.sync.set resolves: the value is stored and the
\* call goes on to chrome.tabs.query.
StorageSetResolved ==
  /\ setQueue # <<>>
  /\ pinkSyncSettings' = Head(setQueue)
  /\ setQueue' = Tail(setQueue)
  /\ querying' = querying + 1
  /\ UNCHANGED <<provVars, flagVars, demoVars, instVars, envVars, sess, shown,
                 authVars, wireVars, overlayVars, popupSettings, clicks, inbox>>

\* The oldest chrome.storage.sync.set rejects: the catch block logs, the
\* call ends.
StorageSetRejected ==
  /\ setQueue # <<>>
  /\ setQueue' = Tail(setQueue)
  /\ UNCHANGED <<provVars, flagVars, demoVars, instVars, envVars, sess, shown,
                 authVars, wireVars, overlayVars, popupSettings, clicks, querying,
                 inbox, pinkSyncSettings>>

\* chrome.tabs.query resolves with the active tab: the call sends
\* APPLY_SETTINGS with this.settings as they are at that moment, and ends.
TabsQueryResolved ==
  /\ querying > 0
  /\ querying' = querying - 1
  /\ inbox' = Append(inbox, popupSettings)
  /\ UNCHANGED <<provVars, flagVars, demoVars, instVars, envVars, sess, shown,
                 authVars, wireVars, overlayVars, popupSettings, clicks, setQueue,
                 pinkSyncSettings>>

\* showSignLanguageWidget without its first line.
showSignLanguageWidgetAgain(page) ==
  [page EXCEPT !.signLanguageWidget = TRUE, !.widgets = page.widgets + 1]

\* showSignLanguageWidget: nothing if the reference is set, else a new
\* element appended to the body and kept in the reference.
showSignLanguageWidget(page) ==
  IF page.signLanguageWidget THEN page
  ELSE [page EXCEPT !.signLanguageWidget = TRUE, !.widgets = page.widgets + 1]

\* hideSignLanguageWidget: removes the referenced element and clears the
\* reference, if there is one.
hideSignLanguageWidget(page) ==
  IF page.signLanguageWidget
  THEN [page EXCEPT !.signLanguageWidget = FALSE, !.widgets = page.widgets - 1]
  ELSE page

\* applySettings on a page [root, signLanguageWidget, widgets]: the three
\* classes and the font-size property follow the settings, the widget is
\* shown or hidden.
applySettings(settings, page) ==
  LET styled == [page EXCEPT !.root = [highContrast |-> settings.highContrast,
                                       fontSize |-> settings.fontSize,
                                       reducedMotion |-> settings.reducedMotion,
                                       focusIndicators |-> settings.focusIndicators]]
  IN IF settings.signLanguageOverlay THEN showSignLanguageWidget(styled)
     ELSE hideSignLanguageWidget(styled)

\* The page as the content script sees and changes it.
Page == [root |-> root, signLanguageWidget |-> signLanguageWidget, widgets |-> widgets]

SetPage(page) ==
  /\ root' = page.root
  /\ signLanguageWidget' = page.signLanguageWidget
  /\ widgets' = page.widgets

\* PinkSyncOverlay.init: chrome.storage.sync.get resolves with the value
\* stored at that moment, loadSettings merges it into this.settings.
loadSettings ==
  /\ overlayPhase = "loading"
  /\ overlayPhase' = "loaded"
  /\ overlaySettings' = pinkSyncSettings
  /\ UNCHANGED <<provVars, flagVars, demoVars, instVars, envVars, sess, shown,
                 authVars, wireVars, popupVars, root, signLanguageWidget, widgets>>

\* PinkSyncOverlay.init after the await: createOverlay, applySettings,
\* setupMessageListener.
OverlayInit ==
  /\ overlayPhase = "loaded"
  /\ overlayPhase' = "listening"
  /\ SetPage(applySettings(overlaySettings, Page))
  /\ UNCHANGED <<provVars, flagVars, demoVars, instVars, envVars, sess, shown,
                 authVars, wireVars, popupVars, overlaySettings>>

\* The tab receives the oldest APPLY_SETTINGS message.  The content script's
\* listener takes the settings of the message and applies them; before the
\* listener is registered the message has no receiver and is lost.
RuntimeOnMessage ==
  /\ inbox # <<>>
  /\ inbox' = Tail(inbox)
  /\ IF overlayPhase = "listening"
     THEN /\ overlaySettings' = Head(inbox)
          /\ SetPage(applySettings(overlaySettings', Page))
     ELSE UNCHANGED <<overlaySettings, root, signLanguageWidget, widgets>>
  /\ UNCHANGED <<provVars, flagVars, demoVars, instVars, envVars, sess, shown,
                 authVars, wireVars, overlayPhase, popupSettings, clicks, setQueue,
                 querying, pinkSyncSettings>>

\* A click on the widget's close button.
WidgetCloseClick ==
  /\ signLanguageWidget
  /\ SetPage(hideSignLanguageWidget(Page))
  /\ UNCHANGED <<provVars, flagVars, demoVars, instVars, envVars, sess, shown,
                 authVars, wireVars, popupVars, overlayPhase, overlaySettings>>

ExtNext ==
  \/ \E switchId \in Switches : ToggleClick(switchId)
  \/ \E value \in FontSizes : FontSizeInput(value)
  \/ resetSettings
  \/ StorageSetResolved
  \/ StorageSetRejected
  \/ TabsQueryResolved
  \/ loadSettings
  \/ OverlayInit
  \/ RuntimeOnMessage
  \/ WidgetCloseClick

ExtSpec == ExtInit /\ [][ExtNext]_vars

\* No saveSettings call is waiting and no message is on its way.
Settled == setQueue = <<>> /\ querying = 0 /\ inbox = <<>>

\* C29: whenever every saveSettings call has ended and every message has
\* arrived, chrome.storage.sync holds the popup's current settings, and the
\* content script, once it listens, has taken and applied them; a click on a
\* switch changes that setting and no other; reset sets the five defaults.
C29_SettingsConverge ==
  /\ [](Settled =>
          /\ pinkSyncSettings = popupSettings
          /\ overlayPhase = "listening" =>
               /\ overlaySettings = popupSettings
               /\ \A f \in DOMAIN root : root[f] = popupSettings[f])
  /\ [][\A switchId \in Switches :
          ToggleClick(switchId) =>
            /\ popupSettings'[switchId] = ~popupSettings[switchId]
            /\ \A f \in DOMAIN popupSettings \ {switchId} :
                 popupSettings'[f] = popupSettings[f]]_vars
  /\ [][resetSettings =>
          popupSettings' = [highContrast |-> FALSE, fontSize |-> 16,
                            reducedMotion |-> FALSE, focusIndicators |-> TRUE,
                            signLanguageOverlay |-> FALSE]]_vars

\* C30: the page never holds more than one sign-language widget, whatever
\* APPLY_SETTINGS messages arrive and however often the widget is closed;
\* right after each applySettings (at init and on each message) the widget is
\* in the page exactly if signLanguageOverlay is set in the settings applied;
\* and applying these settings once more would change nothing on the page.
C30_OneWidget ==
  /\ [](widgets <= 1)
  /\ [][(OverlayInit \/ (RuntimeOnMessage /\ overlayPhase = "listening")) =>
          /\ (widgets' = 1) <=> overlaySettings'.signLanguageOverlay
          /\ signLanguageWidget' <=> overlaySettings'.signLanguageOverlay
          /\ applySettings(overlaySettings',
                           [root |-> root', signLanguageWidget |-> signLanguageWidget',
                            widgets |-> widgets'])
               = [root |-> root', signLanguageWidget |-> signLanguageWidget',
                  widgets |-> widgets']]_vars

\* After three popup actions the content script has applied the message that
\* carries all three changes; the page holds one widget.
C30_Witness ==
  /\ overlayPhase = "listening"
  /\ clicks = 3
  /\ Settled
  /\ overlaySettings = [DefaultSettings EXCEPT !.signLanguageOverlay = TRUE,
                                               !.highContrast = TRUE,
                                               !.fontSize = 20]
  /\ root.highContrast
  /\ root.fontSize = 20
  /\ signLanguageWidget
  /\ widgets = 1

====
